---- MODULE Spec2Model ----
(***************************************************************************)
(* Clinical-trial data-quality utilities: PatientValidator,                *)
(* AdverseEventProcessor and ProtocolParser.                               *)
(*                                                                         *)
(* Every operation is a synchronous call made by a single caller, who is   *)
(* idle between calls.  A state records the call that has just ended: the  *)
(* operation (op), the caller's argument as it was passed (arg), the same  *)
(* object as it is when the call ends (argAfter), the outcome (ret: a      *)
(* returned value or an escaped exception), the fields of the three        *)
(* component instances (self) and the wall clock the call read (now).      *)
(*                                                                         *)
(* Python values are records [t, s, n]: t is the Python type, s the        *)
(* characters of a str (one-character strings), n the number of an int,    *)
(* a bool (0/1) or a timestamp (minutes).  A dict is a function from the   *)
(* keys it holds to values; a key that is absent is not in its DOMAIN.     *)
(***************************************************************************)
EXTENDS Integers, Sequences, FiniteSets, TLC

VARIABLES op, arg, argAfter, ret, self, now

vars == <<op, arg, argAfter, ret, self, now>>

-----------------------------------------------------------------------------
(* Python values *)

PyStr(chars) == [t |-> "str", s |-> chars, n |-> 0]
PyInt(i) == [t |-> "int", s |-> <<>>, n |-> i]
PyBool(b) == [t |-> "bool", s |-> <<>>, n |-> IF b THEN 1 ELSE 0]
None == [t |-> "NoneType", s |-> <<>>, n |-> 0]
Timestamp(minutes) == [t |-> "Timestamp", s |-> <<>>, n |-> minutes]

PyTrue == PyBool(TRUE)
PyFalse == PyBool(FALSE)

Digits == {"0", "1", "2", "3", "4", "5", "6", "7", "8", "9"}

DigitVal(c) ==
    CASE c = "0" -> 0 [] c = "1" -> 1 [] c = "2" -> 2 [] c = "3" -> 3
      [] c = "4" -> 4 [] c = "5" -> 5 [] c = "6" -> 6 [] c = "7" -> 7
      [] c = "8" -> 8 [] c = "9" -> 9

AllDigits(chars) == \A i \in 1..Len(chars) : chars[i] \in Digits

RECURSIVE Number(_)
Number(chars) ==
    IF chars = <<>> THEN 0
    ELSE 10 * Number(SubSeq(chars, 1, Len(chars) - 1)) + DigitVal(chars[Len(chars)])

StartsWith(chars, prefix) ==
    /\ Len(chars) >= Len(prefix)
    /\ SubSeq(chars, 1, Len(prefix)) = prefix

-----------------------------------------------------------------------------
(* Outcomes of a call *)

NoValue == [kind |-> "none"]
Return(v) == [kind |-> "return", value |-> v]
Raise(exc) == [kind |-> "raise", exc |-> exc]

(* An error message.  where: the text before the first ": " (a JSON path   *)
(* as its components, or the literal prefix); what: the message template;  *)
(* quoted: the literals the message quotes or enumerates, in order.  The   *)
(* repr of the offending value, which some messages embed, is left out.    *)
Error(where, what, quoted) == [where |-> where, what |-> what, quoted |-> quoted]

-----------------------------------------------------------------------------
(* datetime *)

IsLeap(y) == (y % 4 = 0) /\ ((y % 100 # 0) \/ (y % 400 = 0))

DaysInMonth(y, m) ==
    CASE m \in {1, 3, 5, 7, 8, 10, 12} -> 31
      [] m \in {4, 6, 9, 11} -> 30
      [] m = 2 -> IF IsLeap(y) THEN 29 ELSE 28

RECURSIVE DaysBeforeMonth(_, _)
DaysBeforeMonth(y, m) ==
    IF m = 1 THEN 0 ELSE DaysBeforeMonth(y, m - 1) + DaysInMonth(y, m - 1)

(* date.toordinal: 0001-01-01 is day 1 *)
Ordinal(y, m, d) ==
    LET p == y - 1
    IN  365 * p + (p \div 4) - (p \div 100) + (p \div 400) + DaysBeforeMonth(y, m) + d

(* A parsed datetime: minutes since 0001-01-01T00:00 less one day, and     *)
(* whether it carries a UTC offset (aware) or not (naive).                 *)
DateTime(y, m, d, hh, mm, aware) ==
    [minutes |-> (Ordinal(y, m, d) * 24 + hh) * 60 + mm, aware |-> aware]

ValidDate(chars) ==
    /\ Len(chars) = 10
    /\ AllDigits(SubSeq(chars, 1, 4))
    /\ chars[5] = "-"
    /\ AllDigits(SubSeq(chars, 6, 7))
    /\ chars[8] = "-"
    /\ AllDigits(SubSeq(chars, 9, 10))
    /\ Number(SubSeq(chars, 1, 4)) >= 1
    /\ Number(SubSeq(chars, 6, 7)) \in 1..12
    /\ Number(SubSeq(chars, 9, 10)) >= 1
    /\ Number(SubSeq(chars, 9, 10))
          <= DaysInMonth(Number(SubSeq(chars, 1, 4)), Number(SubSeq(chars, 6, 7)))

(* HH:MM *)
ValidTime(chars) ==
    /\ Len(chars) = 5
    /\ AllDigits(SubSeq(chars, 1, 2))
    /\ chars[3] = ":"
    /\ AllDigits(SubSeq(chars, 4, 5))
    /\ Number(SubSeq(chars, 1, 2)) <= 23
    /\ Number(SubSeq(chars, 4, 5)) <= 59

(* +HH:MM or -HH:MM *)
ValidOffset(chars) ==
    /\ Len(chars) = 6
    /\ chars[1] \in {"+", "-"}
    /\ ValidTime(SubSeq(chars, 2, 6))

(* The ISO 8601 forms parsed here: YYYY-MM-DD, YYYY-MM-DDTHH:MM and        *)
(* YYYY-MM-DDTHH:MM+HH:MM.  Any other text is a ValueError.                *)
IsoForm(chars) ==
    IF Len(chars) \notin {10, 16, 22} THEN "invalid"
    ELSE IF ~ValidDate(SubSeq(chars, 1, 10)) THEN "invalid"
    ELSE IF Len(chars) = 10 THEN "date"
    ELSE IF ~(chars[11] \in {"T", " "} /\ ValidTime(SubSeq(chars, 12, 16))) THEN "invalid"
    ELSE IF Len(chars) = 16 THEN "datetime"
    ELSE IF ValidOffset(SubSeq(chars, 17, 22)) THEN "aware"
    ELSE "invalid"

(* The datetime of a text of the given form *)
ParseIsoAs(chars, form) ==
    DateTime(Number(SubSeq(chars, 1, 4)), Number(SubSeq(chars, 6, 7)),
             Number(SubSeq(chars, 9, 10)),
             IF form = "date" THEN 0 ELSE Number(SubSeq(chars, 12, 13)),
             IF form = "date" THEN 0 ELSE Number(SubSeq(chars, 15, 16)),
             form = "aware")

ParseIso(chars) == ParseIsoAs(chars, IsoForm(chars))

(* The outcome of parsing a text of the given form *)
ParsedAs(chars, form) ==
    IF form = "invalid" THEN Raise("ValueError") ELSE Return(ParseIsoAs(chars, form))

(* datetime.fromisoformat(v): TypeError unless v is a str, ValueError when *)
(* the text is no ISO date, else the datetime.                             *)
FromIsoFormat(v) ==
    IF v.t # "str" THEN Raise("TypeError") ELSE ParsedAs(v.s, IsoForm(v.s))

(* a >= b in place of a > b *)
DateTimeGreater_OrEqual(a, b) ==
    IF a.aware # b.aware THEN [kind |-> "raise", exc |-> "TypeError"]
    ELSE [kind |-> "return", value |-> a.minutes >= b.minutes]

(* a > b on datetimes: TypeError when one is aware and the other naive.    *)
(* The wall clock (datetime.now(), pd.Timestamp.now()) is naive.           *)
DateTimeGreater(a, b) ==
    IF a.aware # b.aware THEN Raise("TypeError")
    ELSE Return(a.minutes > b.minutes)

-----------------------------------------------------------------------------
(* PatientValidator *)

(* A pattern ^<prefix>[0-9]{<digits>}$ *)
Pattern(prefix, digits) == [prefix |-> prefix, digits |-> digits]

(* PatientValidator.SCHEMA: the properties in declaration order, the       *)
(* keywords of each property, and the required list.  "format" is kept     *)
(* as a keyword: Draft7Validator is built without a format checker, so it  *)
(* asserts nothing.                                                        *)
SCHEMA ==
    [ properties |-> <<"patient_id", "age", "gender", "enrollment_date",
                       "site_id", "consent_signed">>,
      patient_id |-> [type |-> "string", pattern |-> Pattern(<<"P","A","T">>, 6)],
      age |-> [type |-> "integer", minimum |-> 18, maximum |-> 85],
      gender |-> [type |-> "string", enum |-> <<"M", "F", "O">>],
      enrollment_date |-> [type |-> "string", format |-> "date"],
      site_id |-> [type |-> "string", pattern |-> Pattern(<<"S","I","T","E">>, 3)],
      consent_signed |-> [type |-> "boolean"],
      required |-> <<"patient_id", "age", "gender", "enrollment_date",
                     "site_id", "consent_signed">> ]

(* jsonschema's type checker: a bool is no integer *)
IsType(v, type) ==
    CASE type = "string" -> v.t = "str"
      [] type = "integer" -> v.t = "int"
      [] type = "boolean" -> v.t = "bool"
      [] type = "number" -> v.t = "int"

(* re.search(pattern, chars): $ matches at the end and before a newline    *)
(* that ends the text.                                                     *)
PatternMatches(p, chars) ==
    LET body == IF Len(chars) > 0 /\ chars[Len(chars)] = "\n"
                THEN SubSeq(chars, 1, Len(chars) - 1) ELSE chars
        fits(c) == /\ Len(c) = Len(p.prefix) + p.digits
                   /\ StartsWith(c, p.prefix)
                   /\ AllDigits(SubSeq(c, Len(p.prefix) + 1, Len(c)))
    IN  fits(chars) \/ fits(body)

RECURSIVE InEnum(_, _)
InEnum(v, enum) ==
    IF enum = <<>> THEN FALSE
    ELSE (v.t = "str" /\ v.s = <<Head(enum)>>) \/ InEnum(v, Tail(enum))

(* The errors of one property's subschema on its value, keyword by keyword *)
(* in the order the subschema lists them.                                  *)
PropertyErrors(f, sub, v) ==
    LET at == <<"$", f>>
        typeErr == IF ~IsType(v, sub.type)
                   THEN <<Error(at, "is not of type", <<sub.type>>)>> ELSE <<>>
        patternErr == IF "pattern" \in DOMAIN sub /\ IsType(v, "string")
                         /\ ~PatternMatches(sub.pattern, v.s)
                      THEN <<Error(at, "does not match", <<>>)>> ELSE <<>>
        minErr == IF "minimum" \in DOMAIN sub /\ IsType(v, "number")
                     /\ v.n < sub.minimum
                  THEN <<Error(at, "is less than the minimum of", <<>>)>> ELSE <<>>
        maxErr == IF "maximum" \in DOMAIN sub /\ IsType(v, "number")
                     /\ v.n > sub.maximum
                  THEN <<Error(at, "is greater than the maximum of", <<>>)>> ELSE <<>>
        enumErr == IF "enum" \in DOMAIN sub /\ ~InEnum(v, sub.enum)
                   THEN <<Error(at, "is not one of", sub.enum)>> ELSE <<>>
    IN  typeErr \o patternErr \o minErr \o maxErr \o enumErr

(* "properties": each declared property the instance holds *)
RECURSIVE PropertiesErrors(_, _)
PropertiesErrors(props, patient_data) ==
    IF props = <<>> THEN <<>>
    ELSE LET f == Head(props)
             here == IF f \in DOMAIN patient_data
                     THEN PropertyErrors(f, SCHEMA[f], patient_data[f]) ELSE <<>>
         IN  here \o PropertiesErrors(Tail(props), patient_data)

(* "required": one error per listed property the instance lacks *)
RECURSIVE RequiredErrors(_, _)
RequiredErrors(required, patient_data) ==
    IF required = <<>> THEN <<>>
    ELSE LET f == Head(required)
             here == IF f \notin DOMAIN patient_data
                     THEN <<Error(<<"$">>, "is a required property", <<f>>)>> ELSE <<>>
         IN  here \o RequiredErrors(Tail(required), patient_data)

(* self.validator.iter_errors(patient_data), each as json_path: message *)
IterErrors(patient_data) ==
    PropertiesErrors(SCHEMA.properties, patient_data)
        \o RequiredErrors(SCHEMA.required, patient_data)

(* The enrollment_date business rule: the errors it appends, or the        *)
(* exception that leaves the try block (only ValueError is caught).        *)
FutureCheck(later) ==
    IF later.kind = "raise" THEN later
    ELSE IF later.value
    THEN Return(<<Error(<<"enrollment_date">>, "Cannot be in the future", <<>>)>>)
    ELSE Return(<<>>)

TryEnrollment(enrollment, clock) ==
    IF enrollment.kind = "raise"
    THEN IF enrollment.exc = "ValueError"
         THEN Return(<<Error(<<"enrollment_date">>, "Invalid date format", <<>>)>>)
         ELSE enrollment
    ELSE FutureCheck(DateTimeGreater(enrollment.value, clock))

EnrollmentRule(patient_data, clock) ==
    IF "enrollment_date" \notin DOMAIN patient_data THEN Return(<<>>)
    ELSE TryEnrollment(FromIsoFormat(patient_data["enrollment_date"]), clock)

ConsentRule(patient_data) ==
    IF "consent_signed" \in DOMAIN patient_data /\ patient_data["consent_signed"] = PyFalse
    THEN <<Error(<<"consent_signed">>, "Patient must have signed consent", <<>>)>>
    ELSE <<>>

(* PatientValidator.validate: (is_valid, errors), or the exception raised *)
(* The returned pair: no error at all, and the errors *)
Result(errors) == Return([is_valid |-> Len(errors) = 0, errors |-> errors])

(* The errors in the order they are appended, unless the date rule raised *)
Collect(schema, rule, consent) ==
    IF rule.kind = "raise" THEN rule ELSE Result(schema \o rule.value \o consent)

validate(patient_data, clock) ==
    Collect(IterErrors(patient_data), EnrollmentRule(patient_data, clock),
            ConsentRule(patient_data))

(* One pass of the loop body: the results dict after the patient whose     *)
(* validate returned r.                                                    *)
Record(results, patient, r) ==
    IF r.is_valid
    THEN [results EXCEPT !.valid = Append(@, patient)]
    ELSE [results EXCEPT !.invalid = Append(@, [patient |-> patient, errors |-> r.errors])]

(* The loop over the patients, given the outcome of validate on each: an   *)
(* exception of validate ends the loop and leaves validate_batch.          *)
RECURSIVE BatchLoop(_, _, _)
BatchLoop(patients, outcomes, results) ==
    IF patients = <<>> THEN Return(results)
    ELSE IF Head(outcomes).kind = "raise" THEN Head(outcomes)
    ELSE BatchLoop(Tail(patients), Tail(outcomes),
                   Record(results, Head(patients), Head(outcomes).value))

(* PatientValidator.validate_batch *)
validate_batch(patients, clock) ==
    BatchLoop(patients, [i \in 1..Len(patients) |-> validate(patients[i], clock)],
              [valid |-> <<>>, invalid |-> <<>>])

(* A rate num/den; the int 0 is 0/1 *)
Ratio(num, den) == [num |-> num, den |-> den]

ValidationRate(validCount, total) ==
    IF total # 0 THEN Ratio(validCount, total) ELSE Ratio(0, 1)

(* PatientValidator.get_validation_summary *)
Summary(patients, results) ==
    IF results.kind = "raise" THEN results
    ELSE Return([total |-> Len(patients),
                 valid |-> Len(results.value.valid),
                 invalid |-> Len(results.value.invalid),
                 validation_rate |->
                     ValidationRate(Len(results.value.valid), Len(patients))])

get_validation_summary(patients, clock) ==
    Summary(patients, validate_batch(patients, clock))

-----------------------------------------------------------------------------
(* AdverseEventProcessor *)

SEVERITY_LEVELS ==
    << <<"M","i","l","d">>,
       <<"M","o","d","e","r","a","t","e">>,
       <<"S","e","v","e","r","e">>,
       <<"L","i","f","e","-","t","h","r","e","a","t","e","n","i","n","g">>,
       <<"F","a","t","a","l">> >>

REQUIRED_COLUMNS == <<"event_id", "patient_id", "event_date", "description", "severity">>

(* v in SEVERITY_LEVELS: equality with one of the five strings *)
InSeverityLevels(v) ==
    /\ v.t = "str"
    /\ \E i \in 1..Len(SEVERITY_LEVELS) : SEVERITY_LEVELS[i] = v.s

(* bool(v) *)
Truthy(v) ==
    CASE v.t = "NoneType" -> FALSE
      [] v.t = "str" -> v.s # <<>>
      [] OTHER -> v.n # 0

(* not event.get(field): every falsy value counts as missing *)
FieldMissing_Falsy(event, field) ==
    field \notin DOMAIN event \/ ~Truthy(event[field])

(* The field is not in the event, or is None, or equals the empty str *)
FieldMissing(event, field) ==
    \/ field \notin DOMAIN event
    \/ event[field] = None
    \/ event[field] = PyStr(<<>>)

RECURSIVE RequiredFieldErrors(_, _)
RequiredFieldErrors(columns, event) ==
    IF columns = <<>> THEN <<>>
    ELSE LET field == Head(columns)
             here == IF FieldMissing(event, field)
                     THEN <<Error(<<"Missing required field">>, field, <<>>)>> ELSE <<>>
         IN  here \o RequiredFieldErrors(Tail(columns), event)

(* event.get("severity") and ...: a falsy severity is not checked *)
SeverityErrors_Truthy(event) ==
    IF /\ "severity" \in DOMAIN event
       /\ Truthy(event["severity"])
       /\ ~InSeverityLevels(event["severity"])
    THEN <<Error(<<"Invalid severity">>, "Must be one of", SEVERITY_LEVELS)>>
    ELSE <<>>

SeverityErrors(event) ==
    IF "severity" \in DOMAIN event /\ ~InSeverityLevels(event["severity"])
    THEN <<Error(<<"Invalid severity">>, "Must be one of", SEVERITY_LEVELS)>>
    ELSE <<>>

(* What pd.to_datetime gives: a timestamp, NaT, or None *)
NaT == [is |-> "NaT", minutes |-> 0, aware |-> FALSE]
NoTimestamp == [is |-> "None", minutes |-> 0, aware |-> FALSE]

(* pd.to_datetime(v) on a scalar: None gives None, "" gives NaT, an int    *)
(* counts nanoseconds from 1970-01-01, an ISO text gives its timestamp,    *)
(* any other text or type raises.                                          *)
NotNaT(parsed) ==
    IF parsed.kind = "raise" THEN parsed
    ELSE Return([is |-> "Timestamp", minutes |-> parsed.value.minutes,
                 aware |-> parsed.value.aware])

ToDatetime(v) ==
    CASE v.t = "NoneType" -> Return(NoTimestamp)
      [] v.t = "int" ->
            Return([is |-> "Timestamp",
                    minutes |-> DateTime(1970, 1, 1, 0, 0, FALSE).minutes
                                  + ((v.n \div 1000000000) \div 60),
                    aware |-> FALSE])
      [] v.t = "str" ->
            IF v.s = <<>> THEN Return(NaT) ELSE NotNaT(ParsedAs(v.s, IsoForm(v.s)))
      [] OTHER -> Raise("TypeError")

(* The event_date check: the bare except catches whatever the parse or the *)
(* comparison raises, the TypeError of None > Timestamp included; a        *)
(* comparison with NaT is False.                                           *)
InvalidDate == <<Error(<<"event_date">>, "Invalid date format", <<>>)>>

EventFutureCheck(later) ==
    IF later.kind = "raise" THEN InvalidDate
    ELSE IF later.value
    THEN <<Error(<<"event_date">>, "Cannot be in the future", <<>>)>>
    ELSE <<>>

TryEventDate(event_date, clock) ==
    IF event_date.kind = "raise" THEN InvalidDate
    ELSE IF event_date.value.is = "None" THEN InvalidDate
    ELSE IF event_date.value.is = "NaT" THEN <<>>
    ELSE EventFutureCheck(DateTimeGreater(event_date.value, clock))

EventDateErrors(event, clock) ==
    IF "event_date" \notin DOMAIN event THEN <<>>
    ELSE TryEventDate(ToDatetime(event["event_date"]), clock)

PatientIdErrors(event) ==
    IF /\ "patient_id" \in DOMAIN event
       /\ \/ event["patient_id"].t # "str"
          \/ ~StartsWith(event["patient_id"].s, <<"P","A","T">>)
    THEN <<Error(<<"patient_id">>, "Must be string starting with", << <<"P","A","T">> >>)>>
    ELSE <<>>

(* AdverseEventProcessor.validate_event: (is_valid, errors) *)
validate_event(event, clock) ==
    Result(RequiredFieldErrors(REQUIRED_COLUMNS, event)
             \o SeverityErrors(event)
             \o EventDateErrors(event, clock)
             \o PatientIdErrors(event))

(* A DataFrame is the sequence of its rows; every row holds every column   *)
(* and every event_date is a text of one format (no missing values).       *)

(* df["severity"].value_counts().to_dict() *)
categorize_by_severity(df) ==
    LET present == {df[i]["severity"] : i \in 1..Len(df)}
    IN  [sev \in present |-> Cardinality({i \in 1..Len(df) : df[i]["severity"] = sev})]

(* df[df["patient_id"] == patient_id] *)
get_events_by_patient(df, patient_id) ==
    LET Matches(row) == row["patient_id"] = patient_id
    IN  SelectSeq(df, Matches)

(* pd.to_datetime on the event_date column: the converted column, or the   *)
(* exception of the first value that does not parse.                       *)
AllParsed(outcomes) ==
    IF \E i \in 1..Len(outcomes) : outcomes[i].kind = "raise"
    THEN outcomes[CHOOSE i \in 1..Len(outcomes) :
                    /\ outcomes[i].kind = "raise"
                    /\ \A j \in 1..(i - 1) : outcomes[j].kind # "raise"]
    ELSE Return([i \in 1..Len(outcomes) |-> Timestamp(outcomes[i].value.minutes)])

ColumnToDatetime(column) ==
    AllParsed([i \in 1..Len(column) |-> ToDatetime(column[i])])

SeqMax(column) ==
    CHOOSE x \in {column[i].n : i \in 1..Len(column)} :
        \A i \in 1..Len(column) : column[i].n <= x

SeqMin(column) ==
    CHOOSE x \in {column[i].n : i \in 1..Len(column)} :
        \A i \in 1..Len(column) : column[i].n >= x

(* Timedelta.days of a non-negative difference, in minutes *)
TimedeltaDays(minutes) == minutes \div (24 * 60)

(* AdverseEventProcessor.calculate_event_rate: the outcome and the frame   *)
(* the caller holds afterwards (the event_date column is assigned in       *)
(* place).                                                                 *)
(* The zero check left out: len(df) / 0 *)
Rate_NoZeroGuard(df, date_range) ==
    IF date_range = 0 THEN Raise("ZeroDivisionError")
    ELSE Return(Ratio(Len(df), date_range))

(* The rate over a frame whose event_date column holds timestamps *)
Rate(df, date_range) ==
    IF date_range = 0 THEN Return(Ratio(Len(df), 1))
    ELSE Return(Ratio(Len(df), date_range))

DateRange(column) == TimedeltaDays(SeqMax(column) - SeqMin(column))

(* df["event_date"] = converted, and the rate over the assigned column *)
AssignAndRate(df, converted) ==
    IF converted.kind = "raise" THEN [out |-> converted, df |-> df]
    ELSE [out |-> Rate(df, DateRange(converted.value)),
          df |-> [i \in 1..Len(df) |-> [df[i] EXCEPT !["event_date"] = converted.value[i]]]]

calculate_event_rate(df, days) ==
    IF Len(df) = 0 THEN [out |-> Return(Ratio(0, 1)), df |-> df]
    ELSE AssignAndRate(df, ColumnToDatetime([i \in 1..Len(df) |-> df[i]["event_date"]]))

-----------------------------------------------------------------------------
(* ProtocolParser *)

UpperCase == <<"A","B","C","D","E","F","G","H","I","J","K","L","M",
               "N","O","P","Q","R","S","T","U","V","W","X","Y","Z">>

LowerCase == <<"a","b","c","d","e","f","g","h","i","j","k","l","m",
               "n","o","p","q","r","s","t","u","v","w","x","y","z">>

IsUpper(c) == \E i \in 1..Len(UpperCase) : UpperCase[i] = c
IsLower(c) == \E i \in 1..Len(LowerCase) : LowerCase[i] = c

Lower(c) ==
    IF IsUpper(c) THEN LowerCase[CHOOSE i \in 1..Len(UpperCase) : UpperCase[i] = c] ELSE c

(* \s *)
Whitespace == {" ", "\t", "\n", "\r", "\f"}

(* The literal word (given in lower case) matches text at position i under *)
(* re.IGNORECASE.                                                          *)
MatchAt(text, i, word) ==
    /\ i + Len(word) - 1 <= Len(text)
    /\ \A k \in 1..Len(word) : Lower(text[i + k - 1]) = word[k]

(* The leftmost of a set of positions, or 0 when there is none *)
First(positions) ==
    IF positions = {} THEN 0
    ELSE CHOOSE i \in positions : \A j \in positions : i <= j

(* The position after a greedy run of characters of the class from i on *)
RECURSIVE SkipWhile(_, _, _)
SkipWhile(text, i, class) ==
    IF i <= Len(text) /\ text[i] \in class THEN SkipWhile(text, i + 1, class) ELSE i

(* The position after an optional character c? at i *)
SkipOptional(text, i, c) ==
    IF i <= Len(text) /\ Lower(text[i]) = c THEN i + 1 ELSE i

(* $ without re.MULTILINE: the end, or just before a newline that ends the text *)
AtEnd(text, i) ==
    \/ i = Len(text) + 1
    \/ i = Len(text) /\ text[i] = "\n"

(* The length of the delimiter \n\d+\. or \n- at position i, or 0 *)
DelimiterAt(chars, i) ==
    IF i > Len(chars) \/ chars[i] # "\n" THEN 0
    ELSE LET afterDigits == SkipWhile(chars, i + 1, Digits)
         IN  IF afterDigits > i + 1 /\ afterDigits <= Len(chars) /\ chars[afterDigits] = "."
             THEN afterDigits + 1 - i
             ELSE IF i + 1 <= Len(chars) /\ chars[i + 1] = "-" THEN 2
             ELSE 0

(* re.split(r'\n\d+\.|\n-', chars): the pieces between the delimiters,     *)
(* scanning from position i with the piece begun at position begin.        *)
RECURSIVE SplitFrom(_, _, _)
SplitFrom(chars, begin, i) ==
    IF i > Len(chars) THEN <<SubSeq(chars, begin, Len(chars))>>
    ELSE LET d == DelimiterAt(chars, i)
         IN  IF d > 0
             THEN <<SubSeq(chars, begin, i - 1)>> \o SplitFrom(chars, i + d, i + d)
             ELSE SplitFrom(chars, begin, i + 1)

Split(chars) == SplitFrom(chars, 1, 1)

(* str.strip() *)
RECURSIVE Strip(_)
Strip(chars) ==
    IF chars = <<>> THEN <<>>
    ELSE IF Head(chars) \in Whitespace THEN Strip(Tail(chars))
    ELSE IF chars[Len(chars)] \in Whitespace THEN Strip(SubSeq(chars, 1, Len(chars) - 1))
    ELSE chars

(* [c.strip() for c in re.split(...) if c.strip()] *)
Criteria(criteria_text) ==
    LET pieces == Split(criteria_text)
        stripped == [i \in 1..Len(pieces) |-> Strip(pieces[i])]
        NonEmpty(c) == c # <<>>
    IN  SelectSeq(stripped, NonEmpty)

(* The group of r"<heading> Criteria?:?\s*(.*?)(?=<stop>|$)": heading is   *)
(* the heading up to "criteri" in lower case, stops the positions where    *)
(* the lookahead alternative matches.  The greedy a?, :? and \s* never     *)
(* give back, since the lazy group can always grow to the end of the text. *)
SectionText(text, heading, stops) ==
    LET at == First({i \in 1..(Len(text) + 1) : MatchAt(text, i, heading)})
        afterA == SkipOptional(text, at + Len(heading), "a")
        afterColon == SkipOptional(text, afterA, ":")
        start == SkipWhile(text, afterColon, Whitespace)
        end == First({i \in start..(Len(text) + 1) : i \in stops \/ AtEnd(text, i)})
    IN  IF at = 0 THEN [found |-> FALSE, text |-> <<>>]
        ELSE [found |-> TRUE, text |-> SubSeq(text, start, end - 1)]

InclusionHeading == <<"i","n","c","l","u","s","i","o","n"," ","c","r","i","t","e","r","i">>
ExclusionHeading == <<"e","x","c","l","u","s","i","o","n"," ","c","r","i","t","e","r","i">>

(* ProtocolParser.extract_inclusion_criteria *)
extract_inclusion_criteria(protocol_text) ==
    LET stops == {i \in 1..Len(protocol_text) :
                     MatchAt(protocol_text, i, ExclusionHeading \o <<"a">>)}
        match == SectionText(protocol_text, InclusionHeading, stops)
    IN  IF ~match.found THEN <<>> ELSE Criteria(match.text)

(* ProtocolParser.extract_exclusion_criteria: the lookahead \n\n[A-Z]      *)
(* matches any letter under re.IGNORECASE.                                 *)
extract_exclusion_criteria(protocol_text) ==
    LET stops == {i \in 1..Len(protocol_text) :
                     /\ i + 2 <= Len(protocol_text)
                     /\ protocol_text[i] = "\n"
                     /\ protocol_text[i + 1] = "\n"
                     /\ IsLower(Lower(protocol_text[i + 2]))}
        match == SectionText(protocol_text, ExclusionHeading, stops)
    IN  IF ~match.found THEN <<>> ELSE Criteria(match.text)

(* [A-Z0-9-] under re.IGNORECASE *)
NumberChars ==
    {UpperCase[i] : i \in 1..Len(UpperCase)} \cup {LowerCase[i] : i \in 1..Len(LowerCase)}
        \cup Digits \cup {"-"}

(* r"Protocol\s+(?:Number|ID|#):?\s*([A-Z0-9-]+)" tried at position i:     *)
(* the span of the group, or <<0, 0>>.                                     *)
ProtocolNumberAt(text, i) ==
    LET afterWord == i + 8
        afterSpace == SkipWhile(text, afterWord, Whitespace)
        afterKind == CASE MatchAt(text, afterSpace, <<"n","u","m","b","e","r">>) -> afterSpace + 6
                       [] MatchAt(text, afterSpace, <<"i","d">>) -> afterSpace + 2
                       [] MatchAt(text, afterSpace, <<"#">>) -> afterSpace + 1
                       [] OTHER -> 0
        afterColon == SkipOptional(text, afterKind, ":")
        start == SkipWhile(text, afterColon, Whitespace)
        end == SkipWhile(text, start, NumberChars)
    IN  IF /\ MatchAt(text, i, <<"p","r","o","t","o","c","o","l">>)
           /\ afterSpace > afterWord
           /\ afterKind > 0
           /\ end > start
        THEN <<start, end>> ELSE <<0, 0>>

(* ProtocolParser.extract_protocol_number: the group of the first match,   *)
(* or None.                                                                *)
extract_protocol_number(protocol_text) ==
    LET at == First({i \in 1..Len(protocol_text) :
                        ProtocolNumberAt(protocol_text, i) # <<0, 0>>})
        span == ProtocolNumberAt(protocol_text, at)
    IN  IF at = 0 THEN None
        ELSE PyStr(SubSeq(protocol_text, span[1], span[2] - 1))

(* ProtocolParser.parse_protocol *)
parse_protocol(protocol_text) ==
    [ protocol_number |-> extract_protocol_number(protocol_text),
      inclusion_criteria |-> extract_inclusion_criteria(protocol_text),
      exclusion_criteria |-> extract_exclusion_criteria(protocol_text) ]

-----------------------------------------------------------------------------
(* The inputs the calls are made with *)

MaxBatch == 3
MaxRows == 3

(* The wall clock: 2024-06-15, at noon or at midnight *)
Clock ==
    { ParseIso(<<"2","0","2","4","-","0","6","-","1","5","T","1","2",":","0","0">>),
      ParseIso(<<"2","0","2","4","-","0","6","-","1","5","T","0","0",":","0","0">>) }

(* A choice for a key the dict does not hold *)
Absent == [t |-> "absent", s |-> <<>>, n |-> 0]

(* The dict holding, of the keys, those whose choice is not Absent *)
Dict(choice) ==
    [f \in {k \in DOMAIN choice : choice[k] # Absent} |-> choice[f]]

PatientIds ==
    { Absent, PyStr(<<"P","A","T","1","2","3","4","5","6">>), PyStr(<<"P","A","T","1","2">>),
      PyStr(<<"P","A","T","1","2","3","4","5","6","\n">>), PyInt(123456) }

Ages == { Absent, PyInt(18), PyInt(85), PyInt(17), PyInt(86), PyStr(<<"3","0">>), PyTrue }

Genders == { Absent, PyStr(<<"M">>), PyStr(<<"O">>), PyStr(<<"X">>), PyInt(1) }

(* Past, today, future, no such day, not ISO, with a UTC offset, not a str *)
EnrollmentDates ==
    { Absent,
      PyStr(<<"2","0","2","4","-","0","1","-","1","5">>),
      PyStr(<<"2","0","2","4","-","0","6","-","1","5">>),
      PyStr(<<"2","0","2","5","-","0","1","-","0","1">>),
      PyStr(<<"2","0","2","4","-","0","2","-","3","0">>),
      PyStr(<<"1","5","/","0","1","/","2","0","2","4">>),
      PyStr(<<"2","0","2","4","-","0","1","-","1","5","T","1","0",":","0","0","+","0","0",":","0","0">>),
      PyInt(20240115),
      None }

SiteIds == { Absent, PyStr(<<"S","I","T","E","0","0","1">>), PyStr(<<"S","I","T","E","1">>) }

Consents == { Absent, PyTrue, PyFalse, PyStr(<<"y","e","s">>) }

PatientRecords ==
    { Dict([patient_id |-> p, age |-> a, gender |-> g, enrollment_date |-> d,
            site_id |-> s, consent_signed |-> c]) :
        p \in PatientIds, a \in Ages, g \in Genders, d \in EnrollmentDates,
        s \in SiteIds, c \in Consents }

Patient(age, enrollment_date, consent_signed) ==
    Dict([patient_id |-> PyStr(<<"P","A","T","1","2","3","4","5","6">>), age |-> age,
          gender |-> PyStr(<<"F">>), enrollment_date |-> enrollment_date,
          site_id |-> PyStr(<<"S","I","T","E","0","0","1">>),
          consent_signed |-> consent_signed])

(* The records batches are made of: a valid one, one under age, one        *)
(* without age and consent refused, one whose enrollment_date is an int.   *)
BatchPatients ==
    { Patient(PyInt(40), PyStr(<<"2","0","2","4","-","0","1","-","1","5">>), PyTrue),
      Patient(PyInt(17), PyStr(<<"2","0","2","4","-","0","1","-","1","5">>), PyTrue),
      Patient(Absent, PyStr(<<"2","0","2","4","-","0","1","-","1","5">>), PyFalse),
      Patient(PyInt(40), PyInt(20240115), PyTrue) }

SeqsUpTo(S, n) == UNION {[1..k -> S] : k \in 0..n}

Batches == SeqsUpTo(BatchPatients, MaxBatch)

EventIds == { Absent, None, PyStr(<<>>), PyStr(<<"A","E","0","0","1">>), PyInt(0) }

EventPatientIds ==
    { Absent, None, PyStr(<<>>), PyStr(<<"P","A","T","0","0","1">>),
      PyStr(<<"P","1">>), PyInt(7) }

(* Past, future, unparseable *)
EventDates ==
    { Absent, None, PyStr(<<>>),
      PyStr(<<"2","0","2","4","-","0","1","-","1","5">>),
      PyStr(<<"2","0","3","0","-","0","1","-","0","1">>),
      PyStr(<<"n","o","t","-","a","-","d","a","t","e">>) }

Descriptions == { Absent, PyStr(<<>>), PyStr(<<"H","e","a","d","a","c","h","e">>), PyFalse }

Severities ==
    { Absent, None, PyStr(<<>>), PyStr(<<"M","i","l","d">>), PyStr(<<"F","a","t","a","l">>),
      PyStr(<<"m","i","l","d">>), PyInt(0) }

Events ==
    { Dict([event_id |-> e, patient_id |-> p, event_date |-> d,
            description |-> t, severity |-> s]) :
        e \in EventIds, p \in EventPatientIds, d \in EventDates,
        t \in Descriptions, s \in Severities }

Row(patient_id, event_date, severity) ==
    [ event_id |-> PyStr(<<"A","E","0","0","1">>), patient_id |-> PyStr(patient_id),
      event_date |-> PyStr(event_date),
      description |-> PyStr(<<"H","e","a","d","a","c","h","e">>), severity |-> PyStr(severity) ]

Patient1 == <<"P","A","T","0","0","1">>
Patient2 == <<"P","A","T","0","0","2">>

(* Rows at midnight and 23:00 of one day, 01:00 of the next, two days and  *)
(* two months after the first.                                             *)
Rows ==
    { Row(Patient1, <<"2","0","2","4","-","0","1","-","0","1","T","0","0",":","0","0">>,
          SEVERITY_LEVELS[1]),
      Row(Patient2, <<"2","0","2","4","-","0","1","-","0","1","T","2","3",":","0","0">>,
          SEVERITY_LEVELS[1]),
      Row(Patient1, <<"2","0","2","4","-","0","1","-","0","2","T","0","1",":","0","0">>,
          SEVERITY_LEVELS[3]),
      Row(Patient2, <<"2","0","2","4","-","0","1","-","0","3","T","0","0",":","0","0">>,
          SEVERITY_LEVELS[2]),
      Row(Patient1, <<"2","0","2","4","-","0","3","-","0","1","T","0","0",":","0","0">>,
          SEVERITY_LEVELS[5]) }

Frames == SeqsUpTo(Rows, MaxRows)

DaysChoices == {7, 30}

(* "Inclusion Criteria:\n1. Age 18-85\n2. Signed consent\nExclusion Criteria:\n1. Pregnancy" *)
SpecExample ==
    <<"I","n","c","l","u","s","i","o","n"," ","C","r","i","t","e","r","i",
      "a",":","\n","1","."," ","A","g","e"," ","1","8","-","8","5","\n","2",
      "."," ","S","i","g","n","e","d"," ","c","o","n","s","e","n","t","\n",
      "E","x","c","l","u","s","i","o","n"," ","C","r","i","t","e","r","i",
      "a",":","\n","1","."," ","P","r","e","g","n","a","n","c","y">>

(* "Protocol Number: ABC-123" *)
NumberOnly ==
    <<"P","r","o","t","o","c","o","l"," ","N","u","m","b","e","r",":"," ",
      "A","B","C","-","1","2","3">>

(* A protocol with dashes, both headings and a section after them *)
FullProtocol ==
    <<"P","r","o","t","o","c","o","l"," ","I","D",":"," ","X","Y","-","9",
      "\n","\n","I","n","c","l","u","s","i","o","n"," ","C","r","i","t","e",
      "r","i","a","\n","-"," ","A","d","u","l","t","s","\n","-"," ","C","o",
      "n","s","e","n","t","\n","\n","E","x","c","l","u","s","i","o","n"," ",
      "C","r","i","t","e","r","i","a",":","\n","1","."," ","P","r","e","g",
      "n","a","n","c","y","\n","2","."," ","A","l","l","e","r","g","y","\n",
      "\n","S","c","h","e","d","u","l","e">>

(* "INCLUSION CRITERIA: Patients must\n1. Be adult\n" *)
LeadText ==
    <<"I","N","C","L","U","S","I","O","N"," ","C","R","I","T","E","R","I",
      "A",":"," ","P","a","t","i","e","n","t","s"," ","m","u","s","t","\n",
      "1","."," ","B","e"," ","a","d","u","l","t","\n">>

(* "Exclusion criteria: none\n\nprotocol # 7" *)
NoMarkers ==
    <<"E","x","c","l","u","s","i","o","n"," ","c","r","i","t","e","r","i",
      "a",":"," ","n","o","n","e","\n","\n","p","r","o","t","o","c","o","l",
      " ","#"," ","7">>

Texts == { <<>>, SpecExample, NumberOnly, FullProtocol, LeadText, NoMarkers }

-----------------------------------------------------------------------------
(* The instances: PatientValidator holds the validator built from SCHEMA,  *)
(* AdverseEventProcessor an empty events list, ProtocolParser an empty     *)
(* protocol_data dict.                                                     *)
Constructed ==
    [validator |-> SCHEMA, events |-> <<>>, protocol_data |-> <<>>]

Init ==
    /\ op = "idle"
    /\ arg = <<>>
    /\ argAfter = <<>>
    /\ ret = NoValue
    /\ self = Constructed
    /\ now \in Clock

(* A call that assigns nothing of its argument or of the instance *)
Call(name, input, outcome) ==
    /\ op' = name
    /\ arg' = input
    /\ argAfter' = input
    /\ ret' = outcome
    /\ UNCHANGED <<self, now>>

Validate ==
    /\ op = "idle"
    /\ \E patient_data \in PatientRecords :
            Call("validate", patient_data, validate(patient_data, now))

ValidateBatch ==
    /\ op = "idle"
    /\ \E patients \in Batches :
            Call("validate_batch", patients, validate_batch(patients, now))

GetValidationSummary ==
    /\ op = "idle"
    /\ \E patients \in Batches :
            Call("get_validation_summary", patients, get_validation_summary(patients, now))

ValidateEvent ==
    /\ op = "idle"
    /\ \E event \in Events :
            Call("validate_event", event, validate_event(event, now))

CategorizeBySeverity ==
    /\ op = "idle"
    /\ \E df \in Frames :
            Call("categorize_by_severity", df, Return(categorize_by_severity(df)))

GetEventsByPatient ==
    /\ op = "idle"
    /\ \E df \in Frames, patient_id \in {PyStr(Patient1), PyStr(Patient2)} :
            Call("get_events_by_patient", [df |-> df, patient_id |-> patient_id],
                 Return(get_events_by_patient(df, patient_id)))

CalculateEventRate ==
    /\ op = "idle"
    /\ \E df \in Frames, days \in DaysChoices :
            LET r == calculate_event_rate(df, days)
            IN  /\ op' = "calculate_event_rate"
                /\ arg' = [df |-> df, days |-> days]
                /\ argAfter' = [df |-> r.df, days |-> days]
                /\ ret' = r.out
                /\ UNCHANGED <<self, now>>

ExtractInclusionCriteria ==
    /\ op = "idle"
    /\ \E protocol_text \in Texts :
            Call("extract_inclusion_criteria", protocol_text,
                 Return(extract_inclusion_criteria(protocol_text)))

ExtractExclusionCriteria ==
    /\ op = "idle"
    /\ \E protocol_text \in Texts :
            Call("extract_exclusion_criteria", protocol_text,
                 Return(extract_exclusion_criteria(protocol_text)))

ExtractProtocolNumber ==
    /\ op = "idle"
    /\ \E protocol_text \in Texts :
            Call("extract_protocol_number", protocol_text,
                 Return(extract_protocol_number(protocol_text)))

ParseProtocol ==
    /\ op = "idle"
    /\ \E protocol_text \in Texts :
            Call("parse_protocol", protocol_text, Return(parse_protocol(protocol_text)))

(* The caller takes the outcome and makes no further use of the argument *)
Done ==
    /\ op # "idle"
    /\ op' = "idle"
    /\ arg' = <<>>
    /\ argAfter' = <<>>
    /\ ret' = NoValue
    /\ UNCHANGED <<self, now>>

Next ==
    \/ Validate
    \/ ValidateBatch
    \/ GetValidationSummary
    \/ ValidateEvent
    \/ CategorizeBySeverity
    \/ GetEventsByPatient
    \/ CalculateEventRate
    \/ ExtractInclusionCriteria
    \/ ExtractExclusionCriteria
    \/ ExtractProtocolNumber
    \/ ParseProtocol
    \/ Done

Spec == Init /\ [][Next]_vars

-----------------------------------------------------------------------------
(* Properties *)

Returned == ret.kind = "return"

RequiredPatientFields ==
    {"patient_id", "age", "gender", "enrollment_date", "site_id", "consent_signed"}

(* The message names the field: in its path or among its quoted literals *)
Names(e, f) ==
    \/ \E i \in 1..Len(e.where) : e.where[i] = f
    \/ \E i \in 1..Len(e.quoted) : e.quoted[i] = f

SomeErrorNames(errors, f) == \E i \in 1..Len(errors) : Names(errors[i], f)

(* The Python type the data model gives each patient field *)
DeclaredType(f) ==
    CASE f = "age" -> "int"
      [] f = "consent_signed" -> "bool"
      [] OTHER -> "str"

(* C1: validate never lets an exception escape: whatever the record, and   *)
(* also when a field has the wrong type, it returns (isValid, errors) and  *)
(* the errors report every field of the wrong type.                        *)
C1_NoExceptionEscapes ==
    op = "validate" =>
        /\ Returned
        /\ \A f \in DOMAIN arg :
              arg[f].t # DeclaredType(f) => SomeErrorNames(ret.value.errors, f)

(* What C1 leaves true of the code: when validate does return, every field *)
(* of the wrong type is reported.                                          *)
C1_ReportedWhenReturned ==
    (op = "validate" /\ Returned) =>
        \A f \in DOMAIN arg :
            arg[f].t # DeclaredType(f) => SomeErrorNames(ret.value.errors, f)

IsIdentifier(v, prefix, digits) ==
    /\ v.t = "str"
    /\ Len(v.s) = Len(prefix) + digits
    /\ \A i \in 1..Len(prefix) : v.s[i] = prefix[i]
    /\ \A i \in (Len(prefix) + 1)..Len(v.s) : v.s[i] \in Digits

(* The record meets every schema constraint, consent is true and the       *)
(* enrollment date is not later than the clock.                            *)
ValidPatient(record, clock) ==
    /\ DOMAIN record = RequiredPatientFields
    /\ IsIdentifier(record["patient_id"], <<"P","A","T">>, 6)
    /\ record["age"].t = "int" /\ record["age"].n \in 18..85
    /\ record["gender"] \in {PyStr(<<"M">>), PyStr(<<"F">>), PyStr(<<"O">>)}
    /\ record["enrollment_date"].t = "str"
    /\ ValidDate(record["enrollment_date"].s)
    /\ ParseIso(record["enrollment_date"].s).minutes <= clock.minutes
    /\ IsIdentifier(record["site_id"], <<"S","I","T","E">>, 3)
    /\ record["consent_signed"] = PyTrue

(* C2: a record that meets every schema constraint, with consent true and  *)
(* an enrollment date not later than now, validates to (true, []).         *)
C2_ValidRecordAccepted ==
    (op = "validate" /\ ValidPatient(arg, now)) =>
        ret = Return([is_valid |-> TRUE, errors |-> <<>>])

(* A valid record enrolled on the very minute of the clock was validated *)
C2_Witness ==
    /\ op = "validate"
    /\ ValidPatient(arg, now)
    /\ ParseIso(arg["enrollment_date"].s).minutes = now.minutes
    /\ Returned /\ ret.value.is_valid

(* C3: a record that lacks some of the six required fields validates to    *)
(* false, with an error naming each field it lacks.                        *)
C3_MissingFieldsReported ==
    (op = "validate" /\ DOMAIN arg # RequiredPatientFields) =>
        /\ Returned
        /\ ~ret.value.is_valid
        /\ \A f \in RequiredPatientFields \ DOMAIN arg :
              SomeErrorNames(ret.value.errors, f)

(* What C3 leaves true of the code: the same, when validate returns *)
C3_ReportedWhenReturned ==
    (op = "validate" /\ DOMAIN arg # RequiredPatientFields /\ Returned) =>
        /\ ~ret.value.is_valid
        /\ \A f \in RequiredPatientFields \ DOMAIN arg :
              SomeErrorNames(ret.value.errors, f)

(* seq is the subsequence of the records of batch that satisfy Keep *)
RECURSIVE IsFiltered(_, _, _)
IsFiltered(seq, batch, Keep) ==
    IF batch = <<>> THEN seq = <<>>
    ELSE IF Head(batch) \in Keep
    THEN seq # <<>> /\ Head(seq) = Head(batch) /\ IsFiltered(Tail(seq), Tail(batch), Keep)
    ELSE IsFiltered(seq, Tail(batch), Keep)

Accepted(clock) ==
    {p \in BatchPatients :
        validate(p, clock).kind = "return" /\ validate(p, clock).value.is_valid}

(* C4: validate_batch never aborts on a bad record and partitions its      *)
(* input: valid holds the accepted records and invalid the rejected ones,  *)
(* each with its non-empty errors, both in input order.                    *)
C4_BatchPartition ==
    op = "validate_batch" =>
        /\ Returned
        /\ IsFiltered(ret.value.valid, arg, Accepted(now))
        /\ IsFiltered([i \in 1..Len(ret.value.invalid) |-> ret.value.invalid[i].patient],
                      arg, BatchPatients \ Accepted(now))
        /\ \A i \in 1..Len(ret.value.invalid) : ret.value.invalid[i].errors # <<>>
        /\ Len(ret.value.valid) + Len(ret.value.invalid) = Len(arg)

(* What C4 leaves true of the code: the partition, when the call returns *)
C4_PartitionWhenReturned ==
    (op = "validate_batch" /\ Returned) =>
        /\ IsFiltered(ret.value.valid, arg, Accepted(now))
        /\ IsFiltered([i \in 1..Len(ret.value.invalid) |-> ret.value.invalid[i].patient],
                      arg, BatchPatients \ Accepted(now))
        /\ \A i \in 1..Len(ret.value.invalid) : ret.value.invalid[i].errors # <<>>
        /\ Len(ret.value.valid) + Len(ret.value.invalid) = Len(arg)

IsInvalidSeverity(e) ==
    /\ e.where = <<"Invalid severity">>
    /\ e.quoted = SEVERITY_LEVELS

IsSeverityName(v) ==
    v \in {PyStr(SEVERITY_LEVELS[i]) : i \in 1..Len(SEVERITY_LEVELS)}

(* C5: an event whose severity is not exactly one of the five levels       *)
(* validates to false with an invalid-severity error that lists the five   *)
(* levels.                                                                 *)
C5_InvalidSeverityReported ==
    (op = "validate_event" /\ "severity" \in DOMAIN arg /\ ~IsSeverityName(arg["severity"])) =>
        /\ Returned
        /\ ~ret.value.is_valid
        /\ \E i \in 1..Len(ret.value.errors) : IsInvalidSeverity(ret.value.errors[i])

(* A severity in the wrong case was reported *)
C5_Witness ==
    /\ op = "validate_event"
    /\ "severity" \in DOMAIN arg
    /\ arg["severity"] = PyStr(<<"m","i","l","d">>)
    /\ Returned
    /\ \E i \in 1..Len(ret.value.errors) : IsInvalidSeverity(ret.value.errors[i])

RequiredEventFields == {"event_id", "patient_id", "event_date", "description", "severity"}

IsMissingField(e, f) == e.where = <<"Missing required field">> /\ e.what = f

Blank(event, f) ==
    \/ f \notin DOMAIN event
    \/ event[f].t = "NoneType"
    \/ event[f].t = "str" /\ Len(event[f].s) = 0

(* C6: validate_event reports a required-field error naming a field        *)
(* exactly when the field is absent, null or the empty string, whatever    *)
(* the severity, date and patient-id checks report, and is_valid is true   *)
(* exactly when no error was reported.                                     *)
C6_RequiredFieldErrors ==
    op = "validate_event" =>
        /\ Returned
        /\ \A f \in RequiredEventFields :
              Cardinality({i \in 1..Len(ret.value.errors) :
                              IsMissingField(ret.value.errors[i], f)})
                 = IF Blank(arg, f) THEN 1 ELSE 0
        /\ ret.value.is_valid <=> (ret.value.errors = <<>>)

(* An event carrying a required-field error, a severity error and a date   *)
(* error at once.                                                          *)
C6_Witness ==
    /\ op = "validate_event"
    /\ Returned
    /\ \E i \in 1..Len(ret.value.errors) : IsMissingField(ret.value.errors[i], "description")
    /\ \E i \in 1..Len(ret.value.errors) : IsInvalidSeverity(ret.value.errors[i])
    /\ \E i \in 1..Len(ret.value.errors) : ret.value.errors[i].where = <<"event_date">>
    /\ ~Blank(arg, "severity") /\ ~Blank(arg, "event_date")

Max(a, b) == IF a >= b THEN a ELSE b

(* The whole days between the earliest and the latest event_date of a frame *)
SpanInDays(df) ==
    LET minutes == {ParseIso(df[i]["event_date"].s).minutes : i \in 1..Len(df)}
        latest == CHOOSE x \in minutes : \A y \in minutes : y <= x
        earliest == CHOOSE x \in minutes : \A y \in minutes : y >= x
    IN  (latest - earliest) \div (24 * 60)

SameCalendarDate(df) ==
    \A i, j \in 1..Len(df) :
        SubSeq(df[i]["event_date"].s, 1, 10) = SubSeq(df[j]["event_date"].s, 1, 10)

C8_InputsUnchanged ==
    /\ argAfter = arg
    /\ self = Constructed

StartsWithMarker(criterion) ==
    \/ /\ criterion # <<>>
       /\ criterion[1] = "-"
    \/ \E k \in 1..Len(criterion) :
          /\ k > 1
          /\ criterion[k] = "."
          /\ \A j \in 1..(k - 1) : criterion[j] \in Digits

HasInclusionHeading(text) ==
    \E i \in 1..Len(text) : MatchAt(text, i, InclusionHeading)

(* C9: extract_inclusion_criteria returns the criteria with the markers    *)
(* removed from each of them, the first included: ["Age 18-85", "Signed    *)
(* consent"] on the example of the specification, and nothing when there   *)
(* is no heading.                                                          *)
C9_InclusionCriteria ==
    op = "extract_inclusion_criteria" =>
        /\ Returned
        /\ arg = SpecExample =>
              ret.value = << <<"A","g","e"," ","1","8","-","8","5">>,
                             <<"S","i","g","n","e","d"," ","c","o","n","s","e","n","t">> >>
        /\ \A i \in 1..Len(ret.value) : ~StartsWithMarker(ret.value[i])
        /\ ~HasInclusionHeading(arg) => ret.value = <<>>

(* What C9 leaves true of the code: nothing is returned without a heading, *)
(* and every criterion after the first has its marker removed.             *)
C9_LaterCriteriaStripped ==
    op = "extract_inclusion_criteria" =>
        /\ Returned
        /\ \A i \in 2..Len(ret.value) : ~StartsWithMarker(ret.value[i])
        /\ \A i \in 1..Len(ret.value) : ret.value[i] # <<>>
        /\ ~HasInclusionHeading(arg) => ret.value = <<>>

(* C10: get_validation_summary returns total = the number of records,      *)
(* valid + invalid = total, and validation_rate = valid / total, or        *)
(* exactly 0 when there is no record, for every sequence of records.       *)
C10_ValidationSummary ==
    op = "get_validation_summary" =>
        /\ Returned
        /\ ret.value.total = Len(arg)
        /\ ret.value.valid + ret.value.invalid = ret.value.total
        /\ Len(arg) > 0 =>
              /\ ret.value.validation_rate.den > 0
              /\ ret.value.validation_rate.num * ret.value.total
                    = ret.value.valid * ret.value.validation_rate.den
        /\ Len(arg) = 0 => ret.value.validation_rate = Ratio(0, 1)

(* What C10 leaves true of the code: the same, when the call returns *)
C10_SummaryWhenReturned ==
    (op = "get_validation_summary" /\ Returned) =>
        /\ ret.value.total = Len(arg)
        /\ ret.value.valid + ret.value.invalid = ret.value.total
        /\ ret.value.valid = Cardinality({i \in 1..Len(arg) : arg[i] \in Accepted(now)})
        /\ Len(arg) > 0 =>
              /\ ret.value.validation_rate.den > 0
              /\ ret.value.validation_rate.num * ret.value.total
                    = ret.value.valid * ret.value.validation_rate.den
        /\ Len(arg) = 0 => ret.value.validation_rate = Ratio(0, 1)

====
